---------------------------- MODULE Spec2Model ----------------------------
(***************************************************************************)
(* A model of the two input-pipeline notebooks (celeba_tutorial.ipynb and  *)
(* split_tutorial.ipynb): the label extractor read_labeled_image_list, the *)
(* record writer make_tfr with its overwrite-protection cell, and the      *)
(* dataset built by input_pipeline (map, map, shuffle, repeat, batch,      *)
(* repeat) with the iterator that draws batches from it.                   *)
(*                                                                         *)
(* Text is a sequence of one-character strings, so that str.split and int  *)
(* are computed as Python computes them.  float32 values are integers in   *)
(* units of 2^-24 (every value the pipeline produces is a multiple of      *)
(* that unit), and the float32 roundings are computed explicitly.          *)
(***************************************************************************)
EXTENDS Integers, Sequences, FiniteSets, TLC

VARIABLES
    imgDir,           \* the image directory: whether it exists, its listing (os.listdir order)
    attrTxt,          \* the attribute text file: whether it exists, its lines
    tfr,              \* the record file at TFR_FILE: whether it exists, its records
    write_tfr,        \* the guard cell's flag, as set for its latest run
    all_image_paths,  \* notebook global assigned by the guard cell
    all_labels,       \* notebook global assigned by the guard cell
    pc,               \* what the kernel is executing: "idle", "writing", "session"
    wN,               \* make_tfr's loop index n: records written by the open writer
    raised,           \* the unhandled error that ended the latest cell run, or "none"
    it,               \* the iterator of input_pipeline's dataset
    batch,            \* what the latest get-next returned
    last,             \* history: the kind of the latest step
    nBatches,         \* history: batches returned since the iterator was initialised
    seen,             \* history: per file position, elements returned from it
    partialK,         \* history: k when an interrupted make_tfr left k < n records, else -1
    cImg,             \* harness: a resized pixel array
    cLabel,           \* harness: a label list
    cRec,             \* harness: the serialized record
    ret,              \* harness: what the function under check returned
    notebook,         \* which notebook's cells run: 1 (celeba_tutorial), 2 (split_tutorial)
    recFiles,         \* records in the record files the pipelines read: train, test
    iterations,       \* notebook global set by the graph-construction cell
    variables,        \* names registered by tf.get_variable in the default graph
    graph,            \* the ops the notebook globals name: "none", "built", "stale"
    tpc,              \* the training cell: "idle", "loop"
    epoch,            \* the training loop's index
    drawn,            \* batches drawn from the train and the test iterator
    params,           \* optimizer updates applied to the model parameters
    logs,             \* summary entries in the log directories: train, test
    runs,             \* history: executions of the training cell so far
    writers,          \* the summary writers: "none", "open", "closed"
    tRaised,          \* the unhandled error of the latest graph or training cell run
    step,             \* history: what the latest loop iteration did
    tfrTrain,         \* the record file at TFR_TRAIN of the second notebook
    tfrTest,          \* the record file at TFR_TEST of the second notebook
    split,            \* notebook globals tr_paths, te_paths, tr_lbls, te_lbls
    cellRun           \* history: what the latest run of the second guard cell did

fsVars    == <<imgDir, attrTxt, tfr>>
cellVars  == <<write_tfr, all_image_paths, all_labels, pc, wN, raised>>
iterVars  == <<it, batch, nBatches, seen>>
histVars  == <<last, partialK>>
codecVars == <<cImg, cLabel, cRec, ret>>
trainVars == <<notebook, recFiles, iterations, variables, graph, tpc, epoch, drawn,
               params, logs, runs, writers, tRaised, step>>
splitVars == <<tfrTrain, tfrTest, split, cellRun>>
vars      == <<fsVars, cellVars, iterVars, histVars, codecVars, trainVars, splitVars>>

-----------------------------------------------------------------------------
(* Bounds of the model.                                                    *)

\* Most entries in the image directory.
MaxImages == 2
\* Most attribute rows after the two header lines.
MaxRows == 2
\* Largest batch_size passed to input_pipeline.
MaxBatch == 2
\* Largest epochs passed to input_pipeline.
MaxEpochs == 2
\* Side of the resized image (128 in the notebooks), scaled down so that
\* pixel arrays can be enumerated; the channel count 3 is kept.
IMG_SIDE == 2

\* Most records in a record file the training loop reads.
MaxRecords == 1
\* The training loop is run for every iterations from 0 to SmallIterations,
SmallIterations == 3
\* and for the iterations one below, at and one above each of the first
\* MaxTestPeriods multiples of the test period.
MaxTestPeriods == 1
\* Most executions of the training cell.
MaxRuns == 2

(* Program constants.                                                      *)

\* all_labels[20]
MALE_COL == 20
\* "a list of all 40 attributes"
ATTR_COLS == 40
\* img_fnames_and_lbls[2:]
HEADER_LINES == 2
\* tf.reshape(image_decoded, (128, 128, 3)): the channel axis
IMG_CHANNELS == 3
\* 'label': tf.FixedLenFeature((2), tf.int64) and tf.reshape(label, [2])
LABEL_LEN == 2
\* dataset.shuffle(buffer_size=1000)
SHUFFLE_BUFFER == 1000
\* tf.uint8: the largest pixel value; image * (2. /255) - 1
UINT8_MAX == 255
\* tf.float32: the bits of its significand
F32_BITS == 24
\* float32(2. /255) = C32_MANT * 2^-C32_EXP (2/255 rounded to nearest at 24 bits)
C32_MANT == 8421505
C32_EXP == 30

-----------------------------------------------------------------------------
(* Python text operations on sequences of one-character strings.           *)

Digits == <<"0", "1", "2", "3", "4", "5", "6", "7", "8", "9">>

IsDigit(c) == \E d \in 1..10 : Digits[d] = c

DigitVal(c) == (CHOOSE d \in 1..10 : Digits[d] = c) - 1

\* Whether sep occurs in s at position i.
OccursAt(s, i, sep) ==
    /\ i + Len(sep) - 1 <= Len(s)
    /\ \A k \in 1..Len(sep) : s[i + k - 1] = sep[k]

\* The members of S between lo and hi, in increasing order.
RECURSIVE Sorted(_, _, _)
Sorted(S, lo, hi) ==
    IF lo > hi THEN <<>>
    ELSE IF lo = hi THEN (IF lo \in S THEN <<lo>> ELSE <<>>)
    ELSE LET mid == (lo + hi) \div 2
         IN  Sorted(S, lo, mid) \o Sorted(S, mid + 1, hi)

\* str.split(sep) for a non-empty sep: the pieces between the occurrences
\* of sep found left to right, empty pieces kept.  An occurrence that starts
\* inside an earlier one is not a separator.
Split(s, sep) ==
    LET occ == {i \in 1..Len(s) : OccursAt(s, i, sep)}
        at  == {i \in occ : \A j \in (i - Len(sep) + 1)..(i - 1) : j \notin occ}
        pos == Sorted(at, 1, Len(s))
        k   == Len(pos)
    IN  [m \in 1..(k + 1) |->
            SubSeq(s, IF m = 1 THEN 1 ELSE pos[m - 1] + Len(sep),
                      IF m = k + 1 THEN Len(s) ELSE pos[m] - 1)]

\* The value of a run of decimal digits.
RECURSIVE DigitsVal(_)
DigitsVal(ds) ==
    IF ds = <<>> THEN 0
    ELSE 10 * DigitsVal(SubSeq(ds, 1, Len(ds) - 1)) + DigitVal(ds[Len(ds)])

\* Whether int(tok) accepts tok: an optional sign and at least one digit.
IntAccepts(tok) ==
    LET body == IF tok # <<>> /\ tok[1] \in {"-", "+"} THEN Tail(tok) ELSE tok
    IN  body # <<>> /\ \A k \in 1..Len(body) : IsDigit(body[k])

\* int(tok) for an accepted tok.
IntOf(tok) ==
    IF tok[1] = "-" THEN 0 - DigitsVal(Tail(tok))
    ELSE IF tok[1] = "+" THEN DigitsVal(Tail(tok))
    ELSE DigitsVal(tok)

\* [x for x in toks if x is not ""]: the non-empty items, in order
NonEmpty(toks) ==
    LET keep == Sorted({k \in 1..Len(toks) : toks[k] # <<>>}, 1, Len(toks))
    IN  [m \in 1..Len(keep) |-> toks[keep[m]]]

-----------------------------------------------------------------------------
(* The input files.  The attribute file is text: two header lines, then    *)
(* per image a file name followed by right-aligned integer columns.        *)

JPG == <<".", "j", "p", "g">>

\* The decimal text of an integer in -9..9.
IntText(v) == IF v < 0 THEN <<"-", Digits[1 - v]>> ELSE <<Digits[v + 1]>>

\* One attribute column: the value right-aligned in two characters after a blank.
ColumnText(v) == IF v < 0 THEN <<" ">> \o IntText(v) ELSE <<" ", " ">> \o IntText(v)

\* The columns of a row one after the other, three characters each.
ColumnsText(vals) ==
    [n \in 1..(3 * Len(vals)) |-> ColumnText(vals[((n - 1) \div 3) + 1])[((n - 1) % 3) + 1]]

\* The name of the i-th image without its extension, as in "000001.jpg".
NameText(i) == <<"0", "0", "0", "0", "0", Digits[i + 1]>>

\* One attribute row of the file.
RowText(i, vals) == NameText(i) \o JPG \o ColumnsText(vals)

\* The two header lines: the image count, and the attribute names.
HeaderText == << <<"2">>, <<"M", "a", "l", "e", " ", "Y", "o", "u", "n", "g">> >>

\* The text of an attribute file holding the given rows of integers.
FileText(rows) == HeaderText \o [i \in 1..Len(rows) |-> RowText(i, rows[i])]

\* A row of ncols columns: male in column MALE_COL, its two neighbours
\* the opposite of the filler that every other column holds.
AttrRow(male, fill, ncols) ==
    [c \in 1..ncols |->
        IF c = MALE_COL + 1 THEN male
        ELSE IF c \in {MALE_COL, MALE_COL + 2} THEN 0 - fill
        ELSE fill]

\* Sequences over S of length at most n.
SeqsUpTo(S, n) == UNION {[1..k -> S] : k \in 0..n}

\* The directory entry of the i-th image ("00000i.jpg").
ImageName(i) == i

\* os.path.join(img_dir, img_f)
PathJoin(dir, f) == [dir |-> dir, file |-> f]

IMG_DIR == "img_align_celeba"

-----------------------------------------------------------------------------
(* read_labeled_image_list                                                 *)

\* int(b) of a bool b
IntOfBool(b) == IF b THEN 1 ELSE 0

\* MaleLabel with the second slot tested on its own (== -1).
MaleLabel_TwoTests(attrs) ==
    <<IntOfBool(attrs[MALE_COL + 1] = 1), IntOfBool(attrs[MALE_COL + 1] = 0 - 1)>>

\* MaleLabel reading the column before the male column.
MaleLabel_ColumnBefore(attrs) ==
    LET is_male == attrs[MALE_COL] = 1
    IN  <<IntOfBool(is_male), IntOfBool(~is_male)>>

\* MaleLabel with is_male in both slots.
MaleLabel_BothSlots(attrs) ==
    LET is_male == attrs[MALE_COL + 1] = 1
    IN  <<IntOfBool(is_male), IntOfBool(is_male)>>

\* is_male = all_labels[20] == 1; [int(is_male), int(not is_male)]
MaleLabel(attrs) ==
    LET is_male == attrs[MALE_COL + 1] = 1
    IN  <<IntOfBool(is_male), IntOfBool(~is_male)>>

\* The body of the loop over the attribute rows: the label of one line, or
\* the error the line raises.
LabelOfLine(line) ==
    LET parts == Split(line, JPG)
    IN  IF Len(parts) < 2 THEN [err |-> "IndexError", label |-> <<>>]
        ELSE
          LET toks == NonEmpty(Split(parts[2], <<" ">>))
          IN  IF \E k \in 1..Len(toks) : ~IntAccepts(toks[k])
              THEN [err |-> "ValueError", label |-> <<>>]
              ELSE
                LET attrs == [k \in 1..Len(toks) |-> IntOf(toks[k])]
                IN  IF Len(attrs) < MALE_COL + 1
                    THEN [err |-> "IndexError", label |-> <<>>]
                    ELSE [err |-> "none", label |-> MaleLabel(attrs)]

\* lines[2:]
SkipHeader(lines) ==
    IF Len(lines) <= HEADER_LINES THEN <<>>
    ELSE SubSeq(lines, HEADER_LINES + 1, Len(lines))

\* The index of the first row whose label raises, or one past the last row.
FirstRaise(each) ==
    LET bad == {i \in 1..Len(each) : each[i].err # "none"}
    IN  IF bad = {} THEN Len(each) + 1 ELSE CHOOSE i \in bad : \A j \in bad : i <= j

\* read_labeled_image_list(img_dir, label_txt_path): the two lists it
\* returns, or the error it raises; labels are then the labels appended to
\* the local list before the row that raised.
read_labeled_image_list(dir, txt) ==
    IF ~dir.exists \/ ~txt.exists
    THEN [err |-> "FileNotFoundError", paths |-> <<>>, labels |-> <<>>]
    ELSE
      LET abs_img_paths == [i \in 1..Len(dir.names) |-> PathJoin(IMG_DIR, dir.names[i])]
          rows == SkipHeader(txt.lines)
          each == [i \in 1..Len(rows) |-> LabelOfLine(rows[i])]
          stop == FirstRaise(each)
      IN  [err    |-> IF stop > Len(rows) THEN "none" ELSE each[stop].err,
           paths  |-> abs_img_paths,
           labels |-> [i \in 1..(stop - 1) |-> each[i].label]]

-----------------------------------------------------------------------------
(* make_tfr's encoding of one record                                       *)

\* tostring in Fortran order (first axis fastest).
tostring_F(a) ==
    LET h == Len(a)
        w == IF h = 0 THEN 0 ELSE Len(a[1])
        c == IF w = 0 THEN 0 ELSE Len(a[1][1])
    IN  [n \in 1..(h * w * c) |->
            a[((n - 1) % h) + 1][(((n - 1) \div h) % w) + 1][((n - 1) \div (h * w)) + 1]]

\* ndarray.tostring(): the elements in C order (last axis fastest), one byte
\* per uint8 element.  a is a sequence of rows of pixels of channels.
tostring(a) ==
    LET h == Len(a)
        w == IF h = 0 THEN 0 ELSE Len(a[1])
        c == IF w = 0 THEN 0 ELSE Len(a[1][1])
    IN  [n \in 1..(h * w * c) |->
            a[((n - 1) \div (w * c)) + 1][(((n - 1) \div c) % w) + 1][((n - 1) % c) + 1]]

\* _bytes_feature(value): a bytes list holding the one value
bytes_feature(value) == [kind |-> "bytes_list", value |-> <<value>>]

\* _int64_list_feature(a_list): an int64 list holding the list's items
int64_list_feature(a_list) == [kind |-> "int64_list", value |-> a_list]

\* tf.train.Example(features=tf.train.Features(feature={...}))
Example(raw_im, label) ==
    [image_raw |-> bytes_feature(raw_im), label |-> int64_list_feature(label)]

\* example.SerializeToString(): the feature map as a list of (key, kind,
\* values) entries.
SerializeToString(example) ==
    << <<"image_raw", example.image_raw.kind, example.image_raw.value>>,
       <<"label", example.label.kind, example.label.value>> >>

\* The record make_tfr writes for a resized image and its label.
RecordOf(resized_im, label) == SerializeToString(Example(tostring(resized_im), label))

-----------------------------------------------------------------------------
(* input_pipeline's two map functions                                      *)

\* The entries of a serialized example stored under a key.
Entries(serialized, key) ==
    {n \in 1..Len(serialized) : serialized[n][1] = key}

\* One tf.FixedLenFeature(shape, dtype) of tf.parse_single_example: the
\* values under key, which must be of the kind and count the feature states.
FixedLenFeature(serialized, key, kind, count) ==
    LET at == Entries(serialized, key)
    IN  IF at = {} THEN [err |-> "InvalidArgumentError", value |-> <<>>]
        ELSE
          LET entry == serialized[CHOOSE n \in at : \A m \in at : m <= n]
          IN  IF entry[2] # kind \/ Len(entry[3]) # count
              THEN [err |-> "InvalidArgumentError", value |-> <<>>]
              ELSE [err |-> "none", value |-> entry[3]]

\* parse_protocol_buffer(example_proto): image_raw as a scalar string,
\* label as an int64 vector of LABEL_LEN.
parse_protocol_buffer(example_proto) ==
    LET im == FixedLenFeature(example_proto, "image_raw", "bytes_list", 1)
        lb == FixedLenFeature(example_proto, "label", "int64_list", LABEL_LEN)
    IN  IF im.err # "none" \/ lb.err # "none"
        THEN [err |-> "InvalidArgumentError", image_raw |-> <<>>, label |-> <<>>]
        ELSE [err |-> "none", image_raw |-> im.value[1], label |-> lb.value]

\* tf.decode_raw(image_string, tf.uint8): one element per byte
decode_raw(image_string) == [n \in 1..Len(image_string) |-> image_string[n]]

\* tf.reshape(image_decoded, (128, 128, 3)): C order; the side is IMG_SIDE here
reshape(flat) ==
    [i \in 1..IMG_SIDE |-> [j \in 1..IMG_SIDE |-> [k \in 1..IMG_CHANNELS |->
        flat[((i - 1) * IMG_SIDE + (j - 1)) * IMG_CHANNELS + k]]]]

\* The shape of a rank-3 tensor given as nested sequences.
ShapeOf(a) == <<Len(a), Len(a[1]), Len(a[1][1])>>

-----------------------------------------------------------------------------
(* float32 arithmetic.  A float32 value is kept as an integer count of     *)
(* units of 2^-24; 1.0 is F32_ONE.                                         *)

F32_ONE == 2^F32_BITS

RECURSIVE BitLen(_)
BitLen(n) == IF n = 0 THEN 0 ELSE 1 + BitLen(n \div 2)

Max(a, b) == IF a >= b THEN a ELSE b

Abs(n) == IF n < 0 THEN 0 - n ELSE n

\* Whether rounding a quotient q with remainder r (of a divisor 2*half) to
\* nearest, ties to even, rounds away from q.
RoundsUp(q, r, half) == r > half \/ (r = half /\ q % 2 = 1)

\* n / 2^s rounded to nearest, ties to even, for n >= 0.
RNE(n, s) ==
    IF s = 0 THEN n
    ELSE LET q == n \div (2^s)
         IN  IF RoundsUp(q, n % (2^s), 2^(s - 1)) THEN q + 1 ELSE q

\* RNEWide rounding every inexact quotient up.
RNEWide_Up(h, low, s) ==
    IF s = 0 THEN 2 * h + low
    ELSE LET q == h \div (2^(s - 1))
         IN  IF 2 * (h % (2^(s - 1))) + low > 0 THEN q + 1 ELSE q

\* (2*h + low) / 2^s rounded to nearest, ties to even: RNE of a number
\* given by its half h and its lowest bit.
RNEWide(h, low, s) ==
    IF s = 0 THEN 2 * h + low
    ELSE LET q == h \div (2^(s - 1))
         IN  IF RoundsUp(q, 2 * (h % (2^(s - 1))) + low, 2^(s - 1)) THEN q + 1 ELSE q

\* tf.cast(x, tf.float32) of an integer of magnitude below 2^7: exact
CastF32(v) == v * F32_ONE

\* image * (2. /255) for a pixel p: the float32 nearest to p * float32(2/255),
\* as [m, e] standing for m * 2^e.  The exact product is 2*h + low units of
\* 2^-C32_EXP.
F32MulC32(p) ==
    LET h   == p * (C32_MANT \div 2) + ((p * (C32_MANT % 2)) \div 2)
        low == (p * (C32_MANT % 2)) % 2
        s   == Max(0, BitLen(h) + 1 - F32_BITS)
    IN  [m |-> RNEWide(h, low, s), e |-> s - C32_EXP]

\* t - 1 for a float32 t = m * 2^e in [0, 2]: the float32 nearest to the
\* exact difference, in units of 2^-24.
F32SubOne(t) ==
    LET d  == t.m - 2^(0 - t.e)
        s  == Max(0, BitLen(Abs(d)) - F32_BITS)
        m  == RNE(Abs(d), s)
        u  == m * 2^(t.e + s + F32_BITS)
    IN  IF d < 0 THEN 0 - u ELSE u

\* image * (2. /255) - 1 for one pixel
Rescale(p) == F32SubOne(F32MulC32(p))

\* Rescale for every uint8 value, computed once.
RescaleOf == [p \in 0..UINT8_MAX |-> Rescale(p)]

\* Whether tf.reshape accepts a vector for the shape of the image.
ReshapeAccepts(flat) == Len(flat) = IMG_SIDE * IMG_SIDE * IMG_CHANNELS

\* image_resized: the uint8 tensor before the cast and the rescaling
DecodeImage(image_string) == reshape(decode_raw(image_string))

\* convert_parsed_proto_to_input(image_string, label)
convert_parsed_proto_to_input(image_string, label) ==
    IF ~ReshapeAccepts(decode_raw(image_string)) \/ Len(label) # LABEL_LEN
    THEN [err |-> "InvalidArgumentError", image |-> <<>>, label |-> <<>>]
    ELSE  LET image_resized == DecodeImage(image_string)
          IN  [err |-> "none",
               image |-> [i \in 1..IMG_SIDE |-> [j \in 1..IMG_SIDE |->
                            [k \in 1..IMG_CHANNELS |-> RescaleOf[image_resized[i][j][k]]]]],
               label |-> [n \in 1..LABEL_LEN |-> CastF32(label[n])]]

\* dataset.map(parse_protocol_buffer).map(convert_parsed_proto_to_input) on
\* one record of the file.
MapRecord(rec) ==
    LET parsed == parse_protocol_buffer(rec)
    IN  IF parsed.err # "none"
        THEN [err |-> parsed.err, image |-> <<>>, label |-> <<>>]
        ELSE convert_parsed_proto_to_input(parsed.image_raw, parsed.label)

-----------------------------------------------------------------------------
(* The iterator over input_pipeline(batch_size, epochs, tfr_file):         *)
(* TFRecordDataset . map . map . shuffle . repeat(batch_size * epochs) .   *)
(* batch(batch_size) . repeat(epochs).  Each layer is an iterator whose    *)
(* next step returns an element or the end of its sequence; a shuffle may  *)
(* return any element of its buffer, so a step has a set of outcomes.      *)

Min(a, b) == IF a <= b THEN a ELSE b

\* s without its i-th item.
RemoveAt(s, i) == SubSeq(s, 1, i - 1) \o SubSeq(s, i + 1, Len(s))

NoElem == [image |-> <<>>, label |-> <<>>, src |-> 0, err |-> "none"]

\* The element the two map functions make of the record at position n of
\* the file; src records the position.
Elem(recs, n) ==
    LET x == MapRecord(recs[n])
    IN  [image |-> x.image, label |-> x.label, src |-> n, err |-> x.err]

\* The shuffle iterator at the start of a pass over the file.
FreshShuffle == [rpos |-> 1, buf |-> <<>>]

\* ShuffleNext returning any element of the buffer but dropping the oldest.
ShuffleNext_DropsOldest(sh, recs) ==
    LET c    == Min(SHUFFLE_BUFFER - Len(sh.buf), Len(recs) - sh.rpos + 1)
        buf  == sh.buf \o [n \in 1..c |-> Elem(recs, sh.rpos + n - 1)]
        rpos == sh.rpos + c
    IN  IF buf = <<>>
        THEN {[end |-> TRUE, elem |-> NoElem, st |-> [rpos |-> rpos, buf |-> buf]]}
        ELSE {[end |-> FALSE, elem |-> buf[i],
               st |-> [rpos |-> rpos, buf |-> RemoveAt(buf, 1)]] : i \in 1..Len(buf)}

\* dataset.shuffle(buffer_size): fill the buffer from the file up to
\* buffer_size elements, then return any one element of the buffer; the end
\* when the buffer stays empty.
ShuffleNext(sh, recs) ==
    LET c    == Min(SHUFFLE_BUFFER - Len(sh.buf), Len(recs) - sh.rpos + 1)
        buf  == sh.buf \o [n \in 1..c |-> Elem(recs, sh.rpos + n - 1)]
        rpos == sh.rpos + c
    IN  IF buf = <<>>
        THEN {[end |-> TRUE, elem |-> NoElem, st |-> [rpos |-> rpos, buf |-> buf]]}
        ELSE {[end |-> FALSE, elem |-> buf[i],
               st |-> [rpos |-> rpos, buf |-> RemoveAt(buf, i)]] : i \in 1..Len(buf)}

\* The repeat iterator over the shuffled records, before its first pass.
FreshRepeat == [i |-> 0, sh |-> FreshShuffle]

\* dataset.repeat(count) over the shuffled records: when a pass ends, start
\* the next one, until count passes are done.
RECURSIVE RepeatNext(_, _, _)
RepeatNext(r, recs, count) ==
    IF r.i >= count THEN {[end |-> TRUE, elem |-> NoElem, st |-> r]}
    ELSE UNION {
        IF o.end THEN RepeatNext([i |-> r.i + 1, sh |-> FreshShuffle], recs, count)
        ELSE {[end |-> FALSE, elem |-> o.elem, st |-> [i |-> r.i, sh |-> o.st]]}
        : o \in ShuffleNext(r.sh, recs)}

\* The elements a batch collects: up to k more after acc, fewer when the
\* input ends first.
RECURSIVE Collect(_, _, _, _, _)
Collect(r, recs, count, k, acc) ==
    IF k = 0 THEN {[elems |-> acc, st |-> r]}
    ELSE UNION {
        IF o.end THEN {[elems |-> acc, st |-> o.st]}
        ELSE Collect(o.st, recs, count, k - 1, Append(acc, o.elem))
        : o \in RepeatNext(r, recs, count)}

\* The tensors of a batch: the elements stacked along a new leading axis.
Stack(elems) ==
    [images |-> [n \in 1..Len(elems) |-> elems[n].image],
     labels |-> [n \in 1..Len(elems) |-> elems[n].label],
     src    |-> [n \in 1..Len(elems) |-> elems[n].src],
     err    |-> IF \E n \in 1..Len(elems) : elems[n].err # "none"
                THEN "InvalidArgumentError" ELSE "none"]

NoBatch == Stack(<<>>)

\* BatchNext over the records repeated epochs times only.
BatchNext_RepeatEpochs(r, recs, batch_size, count) ==
    {IF c.elems = <<>> THEN [end |-> TRUE, elem |-> NoBatch, st |-> c.st]
     ELSE [end |-> FALSE, elem |-> Stack(c.elems), st |-> c.st]
     : c \in Collect(r, recs, count \div batch_size, batch_size, <<>>)}

\* BatchNext over the records repeated batch_size times only.
BatchNext_RepeatBatchSize(r, recs, batch_size, count) ==
    {IF c.elems = <<>> THEN [end |-> TRUE, elem |-> NoBatch, st |-> c.st]
     ELSE [end |-> FALSE, elem |-> Stack(c.elems), st |-> c.st]
     : c \in Collect(r, recs, batch_size, batch_size, <<>>)}

\* dataset.batch(batch_size): the next batch_size elements as one batch, a
\* shorter batch when the input ends inside it, the end when it yields none.
BatchNext(r, recs, batch_size, count) ==
    {IF c.elems = <<>> THEN [end |-> TRUE, elem |-> NoBatch, st |-> c.st]
     ELSE [end |-> FALSE, elem |-> Stack(c.elems), st |-> c.st]
     : c \in Collect(r, recs, count, batch_size, <<>>)}

\* The outer repeat iterator, before its first pass over the batches.
FreshPipeline == [i |-> 0, rep |-> FreshRepeat]

\* input_pipeline's dataset: dataset.repeat(epochs) over the batches of the
\* records repeated batch_size * epochs times.
RECURSIVE PipelineNext(_, _, _, _)
PipelineNext(o, recs, batch_size, epochs) ==
    IF o.i >= epochs THEN {[end |-> TRUE, elem |-> NoBatch, st |-> o]}
    ELSE UNION {
        IF x.end THEN PipelineNext([i |-> o.i + 1, rep |-> FreshRepeat],
                                   recs, batch_size, epochs)
        ELSE {[end |-> FALSE, elem |-> x.elem, st |-> [i |-> o.i, rep |-> x.st]]}
        : x \in BatchNext(o.rep, recs, batch_size, batch_size * epochs)}

NoIter == [live |-> FALSE, batch_size |-> 0, epochs |-> 0, at |-> FreshPipeline]

-----------------------------------------------------------------------------
(* The files the notebooks read.                                           *)

\* The permutations of 1..n: the orders in which os.listdir may list n files.
Perms(n) == {f \in [1..n -> 1..n] : \A i, j \in 1..n : i # j => f[i] # f[j]}

\* The image directory with p images, listed in any order, or missing.
ImageDirs ==
    {[exists |-> FALSE, names |-> <<>>]} \cup
    {[exists |-> TRUE, names |-> [i \in DOMAIN f |-> ImageName(f[i])]]
        : f \in UNION {Perms(p) : p \in 0..MaxImages}}

\* An attribute file holding the given rows; rows keeps the integers the
\* text was written from.
AttrFile(rows) == [exists |-> TRUE, lines |-> FileText(rows), rows |-> rows]

NoAttrFile == [exists |-> FALSE, lines |-> <<>>, rows |-> <<>>]

\* The rows of a well-formed file of n rows: ATTR_COLS columns of -1 and 1,
\* the male column alternating from row to row, starting with first.
CelebaRows(n, first) ==
    [i \in 1..n |-> AttrRow(IF i % 2 = 1 THEN first ELSE 0 - first, 0 - 1, ATTR_COLS)]

\* The well-formed attribute files of at most MaxRows rows, or none.
CelebaFiles ==
    {NoAttrFile} \cup
    {AttrFile(CelebaRows(n, first)) : n \in 0..MaxRows, first \in {0 - 1, 1}}

\* Rows with any small integer in the male column, over either filler, rows
\* that end at the male column, and a row too short to have it.
AnyRows ==
    {AttrRow(male, fill, ATTR_COLS) : male \in (0 - 1)..2, fill \in {0 - 1, 1}} \cup
    {AttrRow(male, 1, MALE_COL + 1) : male \in {0 - 1, 1}} \cup
    {AttrRow(1, 1, MALE_COL)}

\* imread(path) resized to IMG_SIDE x IMG_SIDE: the pixels of image file i.
ResizedImage(path) ==
    [i \in 1..IMG_SIDE |-> [j \in 1..IMG_SIDE |-> [k \in 1..IMG_CHANNELS |->
        (path.file * 101 + 31 * i + 7 * j + k) % (UINT8_MAX + 1)]]]

NoTfr == [exists |-> FALSE, recs |-> <<>>]

-----------------------------------------------------------------------------
(* The first notebook: the overwrite-protection cell with make_tfr, and a  *)
(* session that draws batches from input_pipeline's dataset.               *)

\* No error.
NoError == [err |-> "none", at |-> ""]

\* No loop iteration has run.
NoStep == [index |-> 0 - 1, test |-> FALSE, train_draws |-> 0, test_draws |-> 0,
           keep_prob |-> 0, updates |-> 0, entries |-> 0]

\* No split has been computed.
NoSplit == [tr_paths |-> <<>>, te_paths |-> <<>>, tr_lbls |-> <<>>, te_lbls |-> <<>>]

\* The second notebook's guard cell has not run.
NoRun == [branch |-> FALSE, train_existed |-> FALSE, test_existed |-> FALSE,
          wrote_train |-> FALSE, wrote_test |-> FALSE]

SplitIdle == tfrTrain = NoTfr /\ tfrTest = NoTfr /\ split = NoSplit /\ cellRun = NoRun

\* The values of the variables of a part of the model that is not running.
TrainIdle ==
    /\ notebook = 1 /\ recFiles = [train |-> 0, test |-> 0] /\ iterations = 0
    /\ variables = {} /\ graph = "none"
    /\ tpc = "idle" /\ epoch = 0 /\ drawn = [train |-> 0, test |-> 0] /\ params = 0
    /\ logs = [train |-> <<>>, test |-> <<>>] /\ runs = 0 /\ writers = "none"
    /\ tRaised = NoError /\ step = NoStep

CellIdle ==
    /\ write_tfr = FALSE /\ all_image_paths = <<>> /\ all_labels = <<>>
    /\ pc = "idle" /\ wN = 0 /\ raised = "none"

IterIdle == it = NoIter /\ batch = NoBatch /\ nBatches = 0 /\ seen = <<>>

CodecIdle == cImg = <<>> /\ cLabel = <<>> /\ cRec = <<>> /\ ret = <<>>

Init ==
    /\ imgDir \in ImageDirs
    /\ attrTxt \in CelebaFiles
    /\ tfr = NoTfr
    /\ CellIdle /\ IterIdle /\ CodecIdle /\ TrainIdle /\ SplitIdle
    /\ last = "init" /\ partialK = 0 - 1

\* zip pairing each path with the label of the row its file name numbers.
zip_ByName(paths, labels) ==
    [n \in 1..Min(Len(paths), Len(labels)) |->
        <<paths[n], IF paths[n].file \in 1..Len(labels)
                    THEN labels[paths[n].file] ELSE labels[n]>>]

\* zip keeping the last items of the longer list instead of the first.
zip_DropsFromFront(paths, labels) ==
    LET m == Min(Len(paths), Len(labels))
    IN  [n \in 1..m |-> <<paths[n + Len(paths) - m], labels[n + Len(labels) - m]>>]

\* zip(all_image_paths, all_labels): the n-th path with the n-th label, as
\* many pairs as the shorter list has items
zip(paths, labels) ==
    [n \in 1..Min(Len(paths), Len(labels)) |-> <<paths[n], labels[n]>>]

\* read_labeled_image_list returning two empty lists when a file is missing.
read_labeled_image_list_Empty(dir, txt) ==
    IF ~dir.exists \/ ~txt.exists
    THEN [err |-> "none", paths |-> <<>>, labels |-> <<>>]
    ELSE
      LET abs_img_paths == [i \in 1..Len(dir.names) |-> PathJoin(IMG_DIR, dir.names[i])]
          rows == SkipHeader(txt.lines)
          each == [i \in 1..Len(rows) |-> LabelOfLine(rows[i])]
          stop == FirstRaise(each)
      IN  [err    |-> IF stop > Len(rows) THEN "none" ELSE each[stop].err,
           paths  |-> abs_img_paths,
           labels |-> [i \in 1..(stop - 1) |-> each[i].label]]

\* The guard cell's call read_labeled_image_list(), with the default paths.
ReadLists(dir, txt) == read_labeled_image_list(dir, txt)

\* len(list(zip(all_image_paths, all_labels))): the records make_tfr writes
ZipLen == Min(Len(all_image_paths), Len(all_labels))

\* The test that only the flag decides.
GuardTaken_FlagOnly(flag, file) == flag

\* if write_tfr or not os.path.isfile(TFR_FILE):
GuardTaken(flag, file) == flag \/ ~file.exists

\* A writer that opens the file to append to it.
TFRecordWriter_Appends(file) == [exists |-> TRUE, recs |-> file.recs]

\* tf.python_io.TFRecordWriter(tfr_file): the file is created, or emptied
TFRecordWriter(file) == [exists |-> TRUE, recs |-> <<>>]

\* The overwrite-protection cell, run with the flag set to flag, up to the
\* first iteration of make_tfr's loop: the test, read_labeled_image_list,
\* and make_tfr's TFRecordWriter(tfr_file), which creates the file empty.
RunGuardCell(flag) ==
    /\ pc = "idle"
    /\ write_tfr' = flag
    /\ IF GuardTaken(flag, tfr)
       THEN LET r == ReadLists(imgDir, attrTxt)
            IN  IF r.err # "none"
                THEN /\ raised' = r.err
                     /\ last' = "guard_read_raised"
                     /\ UNCHANGED <<all_image_paths, all_labels, pc, wN, tfr, partialK>>
                ELSE /\ all_image_paths' = r.paths
                     /\ all_labels' = r.labels
                     /\ tfr' = TFRecordWriter(tfr)
                     /\ pc' = "writing"
                     /\ wN' = 0
                     /\ raised' = "none"
                     /\ last' = "guard_write"
                     /\ partialK' = 0 - 1
       ELSE /\ raised' = "none"
            /\ last' = "guard_skip"
            /\ UNCHANGED <<all_image_paths, all_labels, pc, wN, tfr, partialK>>
    /\ UNCHANGED <<splitVars, trainVars, imgDir, attrTxt, iterVars, codecVars>>

\* One iteration of make_tfr's loop: read and resize the image at the n-th
\* path, serialize it with the n-th label, append the record to the file.
WriteRecord ==
    /\ pc = "writing"
    /\ wN < ZipLen
    /\ LET pl == zip(all_image_paths, all_labels)[wN + 1]
       IN  tfr' = [tfr EXCEPT !.recs = Append(@, RecordOf(ResizedImage(pl[1]), pl[2]))]
    /\ wN' = wN + 1
    /\ last' = "write"
    /\ UNCHANGED <<splitVars, trainVars, imgDir, attrTxt, write_tfr, all_image_paths, all_labels, pc, raised,
                   partialK, iterVars, codecVars>>

\* make_tfr's loop is over: the function and the cell return.
FinishWrite ==
    /\ pc = "writing"
    /\ wN = ZipLen
    /\ pc' = "idle"
    /\ last' = "finish"
    /\ UNCHANGED <<splitVars, trainVars, fsVars, write_tfr, all_image_paths, all_labels, wN, raised,
                   partialK, iterVars, codecVars>>

\* The kernel is interrupted while make_tfr runs: the cell ends with the
\* records written so far left in the file.
Interrupt ==
    /\ pc = "writing"
    /\ pc' = "idle"
    /\ raised' = "KeyboardInterrupt"
    /\ partialK' = IF wN < ZipLen THEN wN ELSE 0 - 1
    /\ last' = "interrupt"
    /\ UNCHANGED <<splitVars, trainVars, fsVars, write_tfr, all_image_paths, all_labels, wN, iterVars, codecVars>>

\* The user deletes the record file between two cell runs.
DeleteFile ==
    /\ pc = "idle"
    /\ tfr.exists
    /\ tfr' = NoTfr
    /\ partialK' = 0 - 1
    /\ last' = "delete"
    /\ UNCHANGED <<splitVars, trainVars, imgDir, attrTxt, cellVars, iterVars, codecVars>>

\* input_pipeline(batch_size, epochs, TFR_FILE), make_initializable_iterator
\* and sess.run(iterator.initializer).
StartSession(batch_size, epochs) ==
    /\ pc = "idle"
    /\ pc' = "session"
    /\ it' = [live |-> TRUE, batch_size |-> batch_size, epochs |-> epochs,
              at |-> FreshPipeline]
    /\ batch' = NoBatch
    /\ nBatches' = 0
    /\ seen' = [n \in 1..Len(tfr.recs) |-> 0]
    /\ raised' = "none"
    /\ last' = "init_iterator"
    /\ UNCHANGED <<splitVars, trainVars, fsVars, write_tfr, all_image_paths, all_labels, wN, partialK, codecVars>>

\* How often position n occurs in a batch's src.
Occurrences(src, n) == Cardinality({m \in 1..Len(src) : src[m] = n})

\* One sess.run of iterator.get_next(): a batch, or the error it raises: the
\* file is missing, an element cannot be parsed, or the dataset is at its end.
\* An error is not handled: no further get-next runs in the session.
GetNext ==
    /\ pc = "session"
    /\ raised = "none"
    /\ IF ~tfr.exists
       THEN /\ raised' = "NotFoundError"
            /\ last' = "get_next_raised"
            /\ UNCHANGED <<it, batch, nBatches, seen>>
       ELSE \E o \in PipelineNext(it.at, tfr.recs, it.batch_size, it.epochs) :
            /\ it' = [it EXCEPT !.at = o.st]
            /\ IF o.end
               THEN /\ raised' = "OutOfRangeError"
                    /\ last' = "get_next_raised"
                    /\ UNCHANGED <<batch, nBatches, seen>>
               ELSE IF o.elem.err # "none"
               THEN /\ raised' = o.elem.err
                    /\ last' = "get_next_raised"
                    /\ UNCHANGED <<batch, nBatches, seen>>
               ELSE /\ raised' = "none"
                    /\ last' = "get_next"
                    /\ batch' = o.elem
                    /\ nBatches' = nBatches + 1
                    /\ seen' = [n \in DOMAIN seen |-> seen[n] + Occurrences(o.elem.src, n)]
    /\ UNCHANGED <<splitVars, trainVars, fsVars, write_tfr, all_image_paths, all_labels, pc, wN, partialK, codecVars>>

\* The session is closed; the iterator is gone with it.
CloseSession ==
    /\ pc = "session"
    /\ pc' = "idle"
    /\ it' = NoIter
    /\ batch' = NoBatch
    /\ nBatches' = 0
    /\ seen' = <<>>
    /\ last' = "close"
    /\ UNCHANGED <<splitVars, trainVars, fsVars, write_tfr, all_image_paths, all_labels, wN, raised, partialK,
                   codecVars>>

Next ==
    \/ \E flag \in BOOLEAN : RunGuardCell(flag)
    \/ WriteRecord
    \/ FinishWrite
    \/ Interrupt
    \/ DeleteFile
    \/ \E b \in 1..MaxBatch, e \in 1..MaxEpochs : StartSession(b, e)
    \/ GetNext
    \/ CloseSession

Spec == Init /\ [][Next]_vars

-----------------------------------------------------------------------------
(* The batches of a session.                                               *)

\* The batches and the occurrences of a record that the repeat counts fix.
TotalBatches == Len(tfr.recs) * it.epochs * it.epochs

TotalPerRecord == it.batch_size * it.epochs * it.epochs

\* C5: the label of every element of every batch drawn from a file that
\* make_tfr wrote has two entries, is the float form of [1,0] or [0,1], and
\* its entries sum to exactly 1.
C5_BatchLabelsSumToOne ==
    \A n \in 1..Len(batch.labels) :
        /\ Len(batch.labels[n]) = LABEL_LEN
        /\ batch.labels[n][1] + batch.labels[n][2] = F32_ONE
        /\ batch.labels[n] \in {<<F32_ONE, 0>>, <<0, F32_ONE>>}

\* A batch holding one label of each kind was drawn.
C5_Witness ==
    /\ last = "get_next"
    /\ Len(batch.labels) = 2
    /\ batch.labels[1] = <<F32_ONE, 0>>
    /\ batch.labels[2] = <<0, F32_ONE>>

\* C6: every batch a get-next returns holds exactly batch_size images and
\* batch_size labels, the last batch before the end included, whether or not
\* the number of records is a multiple of batch_size.
C6_BatchIsFull ==
    last = "get_next" =>
        /\ Len(batch.images) = it.batch_size
        /\ Len(batch.labels) = it.batch_size
        /\ Len(batch.src) = it.batch_size

\* The last batch of a file whose length is no multiple of batch_size.
C6_Witness ==
    /\ last = "get_next"
    /\ Len(tfr.recs) % it.batch_size # 0
    /\ nBatches = TotalBatches
    /\ Len(batch.images) = it.batch_size

\* A get-next on a record file that exists.
GetNextStep ==
    /\ pc = "session" /\ raised = "none" /\ tfr.exists
    /\ last' \in {"get_next", "get_next_raised"}

\* C7 as stated: no get-next ever signals the end of the stream.
C7_NeverEndOfStream == raised # "OutOfRangeError"

\* C7, amended: a get-next returns a batch as long as fewer than N*e*e
\* batches have been returned, and the get-next after the N*e*e-th batch
\* signals the end of the stream.
C7_BatchUntilTotal ==
    [][GetNextStep =>
        IF nBatches < TotalBatches
        THEN last' = "get_next" /\ nBatches' = nBatches + 1 /\ raised' = "none"
        ELSE last' = "get_next_raised" /\ raised' = "OutOfRangeError"
              /\ nBatches' = nBatches]_vars

\* The end of the stream was signalled after the batches of two records.
C7_Witness ==
    /\ pc = "session"
    /\ raised = "OutOfRangeError"
    /\ Len(tfr.recs) = 2
    /\ nBatches = 2 * it.epochs * it.epochs

-----------------------------------------------------------------------------
(* The overwrite-protection cell and the record file.                      *)

\* What a run of the cell did: read_labeled_image_list and make_tfr both
\* called, read_labeled_image_list called and raised, or neither called.
GuardKinds == {"guard_write", "guard_read_raised", "guard_skip"}

ReadCalled == {"guard_write", "guard_read_raised"}

\* C9 as stated: the cell calls read_labeled_image_list and make_tfr if and
\* only if write_tfr is true or there is no record file, and a run that
\* calls neither leaves the file as it is.
C9_BothIffForcedOrMissing ==
    [][last' \in GuardKinds =>
        /\ (last' \in ReadCalled) <=> (write_tfr' \/ ~tfr.exists)
        /\ (last' = "guard_write") <=> (write_tfr' \/ ~tfr.exists)
        /\ (last' = "guard_skip") => tfr' = tfr]_vars

\* C9, amended: the cell calls read_labeled_image_list if and only if
\* write_tfr is true or there is no record file; it calls make_tfr if and
\* only if it called read_labeled_image_list and that call returned; a run
\* with the file there and write_tfr false calls neither and leaves the file
\* as it is.
C9_ReadIffForcedOrMissing ==
    [][last' \in GuardKinds =>
        /\ (last' \in ReadCalled) <=> (write_tfr' \/ ~tfr.exists)
        /\ (last' = "guard_write") <=>
              /\ write_tfr' \/ ~tfr.exists
              /\ read_labeled_image_list(imgDir, attrTxt).err = "none"
        /\ (last' = "guard_write") => (pc' = "writing" /\ tfr'.exists)
        /\ (last' # "guard_write") => (pc' = "idle" /\ tfr' = tfr)]_vars

\* The cell ran with write_tfr false over a file holding records and
\* called neither function.
C9_Witness ==
    /\ last = "guard_skip"
    /\ ~write_tfr
    /\ tfr.exists /\ Len(tfr.recs) >= 1
    /\ pc = "idle"

RowLabel(n) == MaleLabel(attrTxt.rows[n])

\* C17: the n-th record make_tfr writes holds the pixels of the n-th listed
\* file and the label of the n-th attribute row, in whatever order the
\* directory was listed; no step of the cell raises for the order.
C17_PairedByPosition ==
    (last \in {"write", "finish"} /\ imgDir.exists /\ attrTxt.exists) =>
        /\ raised = "none"
        /\ \A n \in 1..Len(tfr.recs) :
            tfr.recs[n] = RecordOf(ResizedImage(PathJoin(IMG_DIR, imgDir.names[n])),
                                   RowLabel(n))

\* make_tfr finished without an error over a listing in another order than
\* the rows: the first record holds the second image with the first row's
\* label, which is not the second row's.
C17_Witness ==
    /\ last = "finish" /\ raised = "none"
    /\ imgDir.names = <<ImageName(2), ImageName(1)>>
    /\ Len(tfr.recs) = 2
    /\ tfr.recs[1] = RecordOf(ResizedImage(PathJoin(IMG_DIR, ImageName(2))), RowLabel(1))
    /\ RowLabel(1) # RowLabel(2)

\* An input of read_labeled_image_list is missing.
InputMissing == ~imgDir.exists \/ ~attrTxt.exists

\* C18: with the image directory or the attribute file missing, a run of
\* the guard cell that takes the writer branch ends in the error
\* read_labeled_image_list raises, make_tfr is not called and the record
\* file is neither created nor changed; so there is still no record file,
\* and every run of the cell takes the writer branch and fails again.
C18_MissingInputRaises ==
    [][(InputMissing /\ last' \in GuardKinds) =>
        /\ ~tfr.exists
        /\ last' = "guard_read_raised"
        /\ raised' = "FileNotFoundError"
        /\ pc' = "idle"
        /\ tfr' = tfr /\ ~tfr'.exists]_vars

\* The cell, run with the flag off and an input missing, raised and left
\* no record file.
C18_Witness ==
    /\ InputMissing
    /\ last = "guard_read_raised"
    /\ ~write_tfr
    /\ raised = "FileNotFoundError"
    /\ ~tfr.exists

\* The directory entries P and the attribute rows L.
EntriesP == Len(imgDir.names)
RowsL == Len(attrTxt.rows)

\* The record make_tfr writes for the i-th path and the i-th label.
RecordAt(i) == RecordOf(ResizedImage(PathJoin(IMG_DIR, imgDir.names[i])), RowLabel(i))

\* C23: when the directory holds P entries and the attribute file L rows
\* with P # L, make_tfr raises nothing; while it writes, the file holds the
\* records of the first paths and labels in their order, never more than
\* min(P, L); when it returns the file holds exactly min(P, L) records,
\* record i made of the image at path i and label i, and nothing of the
\* paths or labels after min(P, L).
C23_WritesShorterLength ==
    (imgDir.exists /\ attrTxt.exists /\ EntriesP # RowsL
        /\ last \in {"guard_write", "write", "finish"}) =>
        /\ raised = "none"
        /\ Len(all_image_paths) = EntriesP /\ Len(all_labels) = RowsL
        /\ Len(tfr.recs) <= Min(EntriesP, RowsL)
        /\ tfr.recs = [i \in 1..Len(tfr.recs) |-> RecordAt(i)]
        /\ last = "finish" => Len(tfr.recs) = Min(EntriesP, RowsL)

\* make_tfr returned after writing one record for two images and one row.
C23_Witness ==
    /\ last = "finish" /\ raised = "none"
    /\ EntriesP = 2 /\ RowsL = 1
    /\ tfr.recs = <<RecordAt(1)>>

-----------------------------------------------------------------------------
(* read_labeled_image_list applied to attribute files of any rows.         *)

InitLabels ==
    /\ imgDir = [exists |-> TRUE, names |-> [i \in 1..MaxImages |-> ImageName(i)]]
    /\ attrTxt \in {AttrFile(rows) : rows \in SeqsUpTo(AnyRows, MaxRows)}
    /\ tfr = NoTfr
    /\ CellIdle /\ IterIdle /\ CodecIdle /\ TrainIdle /\ SplitIdle
    /\ last = "init" /\ partialK = 0 - 1

\* all_image_paths, all_labels = read_labeled_image_list()
ReadLabels ==
    /\ last = "init"
    /\ ret' = read_labeled_image_list(imgDir, attrTxt)
    /\ last' = "read"
    /\ UNCHANGED <<splitVars, trainVars, fsVars, cellVars, iterVars, partialK, cImg, cLabel, cRec>>

NextLabels == ReadLabels

SpecLabels == InitLabels /\ [][NextLabels]_vars

\* The rows of the attribute file that hold the male column.
HasMaleColumn(row) == Len(row) >= MALE_COL + 1

\* The rows before the first row without the male column.
RowsRead == {i \in 1..Len(attrTxt.rows) :
                \A j \in 1..i : HasMaleColumn(attrTxt.rows[j])}

\* C1: every attribute row after the header that holds at least 21 integers
\* gets a label appended, and the label is [1,0] or [0,1], never [0,0] or
\* [1,1], whatever integers the row holds.
C1_LabelIsOneHot ==
    last = "read" =>
        /\ DOMAIN ret.labels = RowsRead
        /\ \A i \in DOMAIN ret.labels : ret.labels[i] \in {<<1, 0>>, <<0, 1>>}

\* A row whose male column is neither 1 nor -1 was read and labelled.
C1_Witness ==
    /\ last = "read"
    /\ \E i \in DOMAIN ret.labels :
        /\ attrTxt.rows[i][MALE_COL + 1] \notin {0 - 1, 1}
        /\ ret.labels[i] = <<0, 1>>

\* C2: when the function returns, it returns one label per row after the two
\* header lines, in the order of the lines; the label is [1,0] when column 20
\* is 1 and [0,1] for any other value, whatever the other columns hold.
C2_LabelFollowsMaleColumn ==
    (last = "read" /\ ret.err = "none") =>
        /\ Len(ret.labels) = Len(attrTxt.lines) - HEADER_LINES
        /\ \A i \in 1..Len(ret.labels) :
            ret.labels[i] = IF attrTxt.rows[i][MALE_COL + 1] = 1 THEN <<1, 0>> ELSE <<0, 1>>

\* Two rows were read whose male columns differ while their neighbouring
\* columns hold the value the male column does not.
C2_Witness ==
    /\ last = "read" /\ ret.err = "none"
    /\ Len(ret.labels) = 2
    /\ ret.labels[1] = <<1, 0>> /\ attrTxt.rows[1][MALE_COL] = 0 - 1
    /\ ret.labels[2] = <<0, 1>> /\ attrTxt.rows[2][MALE_COL] = 1

-----------------------------------------------------------------------------
(* One record written as make_tfr writes it and read back as               *)
(* input_pipeline's two map functions read it.                             *)

\* A pixel array whose value grows by di down the rows, dj along a row and
\* 1 across the channels, from d at the first pixel, wrapping at 256.
PixelArray(d, di, dj) ==
    [i \in 1..IMG_SIDE |-> [j \in 1..IMG_SIDE |-> [k \in 1..IMG_CHANNELS |->
        (d + di * (i - 1) + dj * (j - 1) + (k - 1)) % (UINT8_MAX + 1)]]]

HarnessImages ==
    {PixelArray(d, g[1], g[2]) : d \in 0..UINT8_MAX, g \in {<<0, 0>>, <<5, 3>>}}

HarnessLabels == {<<1, 0>>, <<0, 1>>, <<0 - 3, 7>>, <<1>>, <<1, 0, 0>>}

InitCodec ==
    /\ imgDir = [exists |-> FALSE, names |-> <<>>]
    /\ attrTxt = NoAttrFile
    /\ tfr = NoTfr
    /\ CellIdle /\ IterIdle /\ TrainIdle /\ SplitIdle
    /\ cImg \in HarnessImages
    /\ cLabel \in HarnessLabels
    /\ cRec = <<>>
    /\ ret = <<>>
    /\ last = "init" /\ partialK = 0 - 1

\* The body of make_tfr's loop for one resized image and its label.
EncodeRecord ==
    /\ last = "init"
    /\ cRec' = RecordOf(cImg, cLabel)
    /\ last' = "encoded"
    /\ UNCHANGED <<splitVars, trainVars, fsVars, cellVars, iterVars, partialK, cImg, cLabel, ret>>

\* The two map functions on the record: the parsed features, the uint8
\* tensor before the rescaling, and the element the dataset yields.
DecodeRecord ==
    /\ last = "encoded"
    /\ LET parsed == parse_protocol_buffer(cRec)
           elem   == MapRecord(cRec)
       IN  ret' = [parsed |-> parsed,
                   image_resized |-> IF elem.err = "none"
                                     THEN DecodeImage(parsed.image_raw) ELSE <<>>,
                   elem |-> elem]
    /\ last' = "decoded"
    /\ UNCHANGED <<splitVars, trainVars, fsVars, cellVars, iterVars, partialK, cImg, cLabel, cRec>>

NextCodec == EncodeRecord \/ DecodeRecord

SpecCodec == InitCodec /\ [][NextCodec]_vars

\* The pixel positions of an image.
Cells == (1..IMG_SIDE) \X (1..IMG_SIDE) \X (1..IMG_CHANNELS)

\* C3: a resized pixel array and a label of two integers, written as a
\* record and parsed and decoded again (before the rescaling), come back as
\* the same pixels at the same positions and the same two integers in order.
C3_RoundTrip ==
    (last = "decoded" /\ Len(cLabel) = LABEL_LEN) =>
        /\ ret.parsed.err = "none"
        /\ ret.elem.err = "none"
        /\ ret.image_resized = cImg
        /\ ret.parsed.label = cLabel

\* An image that differs from its transpose came back as it was, with a
\* label whose two integers differ.
C3_Witness ==
    /\ last = "decoded"
    /\ cLabel = <<0 - 3, 7>>
    /\ ret.parsed.label = cLabel
    /\ cImg[1][2][1] # cImg[2][1][1]
    /\ ret.image_resized = cImg

\* p * 2^25 / 255 rounded down: 2p/255 in units of 2^-24.
ExactScaled(p) == p * ((2 * F32_ONE) \div UINT8_MAX) + (p * ((2 * F32_ONE) % UINT8_MAX)) \div UINT8_MAX

\* C4: an image element of the pipeline has shape IMG_SIDE x IMG_SIDE x 3 and
\* every value in [-1, 1]: a byte p becomes p * (2/255) - 1 (to within
\* 2^-22), -1 exactly for p = 0 and for no other byte, 1 exactly for p = 255
\* and for no other byte, and a larger byte becomes a larger value.
C4_ImageRange ==
    (last = "decoded" /\ ret.elem.err = "none") =>
        /\ ShapeOf(ret.elem.image) = <<IMG_SIDE, IMG_SIDE, IMG_CHANNELS>>
        /\ \A x \in Cells :
            LET p == cImg[x[1]][x[2]][x[3]]
                v == ret.elem.image[x[1]][x[2]][x[3]]
            IN  /\ 0 - F32_ONE <= v /\ v <= F32_ONE
                /\ (v = 0 - F32_ONE) <=> (p = 0)
                /\ (v = F32_ONE) <=> (p = UINT8_MAX)
                /\ Abs((v + F32_ONE) - ExactScaled(p)) <= 4
        /\ \A x, y \in Cells :
            cImg[x[1]][x[2]][x[3]] < cImg[y[1]][y[2]][y[3]]
                => ret.elem.image[x[1]][x[2]][x[3]] < ret.elem.image[y[1]][y[2]][y[3]]

\* An image holding the bytes 255 and 0 was decoded to the values 1 and -1.
C4_Witness ==
    /\ last = "decoded" /\ ret.elem.err = "none"
    /\ \E x, y \in Cells :
        /\ cImg[x[1]][x[2]][x[3]] = UINT8_MAX
        /\ ret.elem.image[x[1]][x[2]][x[3]] = F32_ONE
        /\ cImg[y[1]][y[2]][y[3]] = 0
        /\ ret.elem.image[y[1]][y[2]][y[3]] = 0 - F32_ONE

-----------------------------------------------------------------------------
(* The graph-construction cell and the training cell of either notebook.   *)
(* A summary entry is [run, step, keep_prob]; keep_prob is in tenths.      *)

\* test = epoch % 500 == 0
TEST_EVERY == 500
\* check_in = epoch % 100 == 0
CHECK_EVERY == 100
\* batch_size of the first and of the second notebook
BATCH_SIZE_CELEBA == 50
BATCH_SIZE_SPLIT == 100
\* keep_prob of train_dict and of test_dict, in tenths
KEEP_PROB_TRAIN == 5
KEEP_PROB_TEST == 10

BatchSize == IF notebook = 1 THEN BATCH_SIZE_CELEBA ELSE BATCH_SIZE_SPLIT

\* ScopedName without the scope.
ScopedName_NoScope(scope, name) == name

\* The name tf.get_variable registers for name inside tf.variable_scope(scope).
ScopedName(scope, name) == scope \o "/" \o name

\* get_variable in a scope with reuse=tf.AUTO_REUSE.
get_variable_AutoReuse(store, full_name) ==
    [err |-> "none", store |-> store \cup {full_name}]

\* tf.get_variable(name, ...) in a scope that does not set reuse: a new
\* variable, or ValueError when the name is registered already.
get_variable(store, full_name) ==
    IF full_name \in store
    THEN [err |-> "ValueError", store |-> store]
    ELSE [err |-> "none", store |-> store \cup {full_name}]

\* The parameters model requests, in order: conv's kernel and bias in each
\* of layer1..layer4, then weights and bias in fully_connected.
ModelRequests ==
    << <<"layer1", "kernel">>, <<"layer1", "bias">>,
       <<"layer2", "kernel">>, <<"layer2", "bias">>,
       <<"layer3", "kernel">>, <<"layer3", "bias">>,
       <<"layer4", "kernel">>, <<"layer4", "bias">>,
       <<"fully_connected", "weights">>, <<"fully_connected", "bias">> >>

\* The requests from the n-th on, up to the first that raises.
RECURSIVE Declare(_, _)
Declare(store, n) ==
    IF n > Len(ModelRequests) THEN [err |-> "none", at |-> "", store |-> store]
    ELSE LET full_name == ScopedName(ModelRequests[n][1], ModelRequests[n][2])
             r == get_variable(store, full_name)
         IN  IF r.err # "none"
             THEN [err |-> r.err, at |-> full_name, store |-> store]
             ELSE Declare(r.store, n + 1)

\* model(batch_image, keep_prob) on the variables registered so far.
model(store) == Declare(store, 1)

\* The batches input_pipeline(batch_size, epochs, file) supplies for a file
\* of n records: repeat(batch_size*epochs), batch(batch_size), repeat(epochs).
StreamLength(n, batch_size, epochs) ==
    LET elements == n * (batch_size * epochs)
        batches  == (elements + batch_size - 1) \div batch_size
    IN  batches * epochs

Supply(which) == StreamLength(recFiles[which], BatchSize, iterations)

IterationChoices ==
    (0..SmallIterations) \cup
    {k * TEST_EVERY + d : k \in 1..MaxTestPeriods, d \in {0 - 1, 0, 1}}

InitTrain ==
    /\ imgDir = [exists |-> FALSE, names |-> <<>>]
    /\ attrTxt = NoAttrFile
    /\ tfr = NoTfr
    /\ CellIdle /\ IterIdle /\ CodecIdle /\ SplitIdle
    /\ last = "init" /\ partialK = 0 - 1
    /\ notebook \in {1, 2}
    /\ recFiles \in {f \in [train : 0..MaxRecords, test : 0..MaxRecords] :
                        notebook = 1 => f.test = 0}
    /\ iterations \in IterationChoices
    /\ variables = {} /\ graph = "none"
    /\ tpc = "idle" /\ epoch = 0 /\ drawn = [train |-> 0, test |-> 0] /\ params = 0
    /\ logs = [train |-> <<>>, test |-> <<>>] /\ runs = 0 /\ writers = "none"
    /\ tRaised = NoError /\ step = NoStep

\* The graph-construction cell: the pipelines, the iterators and the
\* placeholders are made anew, then model requests its parameters.  When
\* that raises, the globals assigned before name new ops and the globals
\* assigned after (logits, loss_op, train_op, summary_op) the old ones.
BuildGraph ==
    /\ tpc = "idle"
    /\ LET m == model(variables)
       IN  /\ variables' = m.store
           /\ tRaised' = [err |-> m.err, at |-> m.at]
           /\ graph' = IF m.err = "none" THEN "built" ELSE "stale"
           /\ last' = IF m.err = "none" THEN "build" ELSE "build_raised"
    /\ UNCHANGED <<splitVars, fsVars, cellVars, iterVars, partialK, codecVars, notebook, recFiles,
                   iterations, tpc, epoch, drawn, params, logs, runs, writers, step>>

\* The kernel is restarted: the default graph and the globals are gone, the
\* files stay.
RestartKernel ==
    /\ tpc = "idle"
    /\ graph # "none"
    /\ variables' = {}
    /\ graph' = "none"
    /\ epoch' = 0
    /\ drawn' = [train |-> 0, test |-> 0]
    /\ params' = 0
    /\ writers' = "none"
    /\ tRaised' = NoError
    /\ last' = "restart"
    /\ UNCHANGED <<splitVars, fsVars, cellVars, iterVars, partialK, codecVars, notebook, recFiles,
                   iterations, tpc, logs, runs, step>>

\* The training cell up to its loop: the session, the variable initializer,
\* the summary writers and the iterator initializers.
StartTraining ==
    /\ tpc = "idle"
    /\ graph # "none"
    /\ runs < MaxRuns
    /\ tpc' = "loop"
    /\ params' = 0
    /\ writers' = "open"
    /\ drawn' = [train |-> 0, test |-> 0]
    /\ epoch' = 0
    /\ runs' = runs + 1
    /\ tRaised' = NoError
    /\ step' = NoStep
    /\ last' = "start"
    /\ UNCHANGED <<splitVars, fsVars, cellVars, iterVars, partialK, codecVars, notebook, recFiles,
                   iterations, variables, graph, logs>>

\* What one iteration of the loop did: the error it raised, whether it was
\* a test step, the batches it drew, the keep_prob it fed, the optimizer
\* updates it ran and the summary entries it added.
Outcome(err, test, train_draws, test_draws, keep_prob, updates, entries) ==
    [err |-> err, test |-> test, train_draws |-> train_draws, test_draws |-> test_draws,
     keep_prob |-> keep_prob, updates |-> updates, entries |-> entries]

\* Whether the iterator has a batch left after d draws.
HasNext(which, d) == d < Supply(which)

\* IsCheckIn for every step.
IsCheckIn_Always(e) == TRUE

\* check_in = epoch % 100 == 0
IsCheckIn(e) == e % CHECK_EVERY = 0

\* IsTestStep missing step 0.
IsTestStep_NotAtZero(e) == e > 0 /\ e % TEST_EVERY = 0

\* test = epoch % 500 == 0
IsTestStep(e) == e % TEST_EVERY = 0

\* CelebaBody with loss_op fetched by the run that trains: a check-in draws
\* no batch of its own.
CelebaBody_LossInSameRun(e) ==
    IF ~HasNext("train", drawn.train)
    THEN Outcome("OutOfRangeError", FALSE, 0, 0, KEEP_PROB_TRAIN, 0, 0)
    ELSE Outcome("none", FALSE, 1, 0, KEEP_PROB_TRAIN, 1, 1)

\* CelebaBody with add_summary after the check-in.
CelebaBody_SummaryLast(e) ==
    IF ~HasNext("train", drawn.train)
    THEN Outcome("OutOfRangeError", FALSE, 0, 0, KEEP_PROB_TRAIN, 0, 0)
    ELSE IF IsCheckIn(e) /\ ~HasNext("train", drawn.train + 1)
    THEN Outcome("OutOfRangeError", FALSE, 1, 0, KEEP_PROB_TRAIN, 1, 0)
    ELSE Outcome("none", FALSE, IF IsCheckIn(e) THEN 2 ELSE 1, 0, KEEP_PROB_TRAIN, 1, 1)

\* The loop body of the first notebook at index e: sess.run([train_op,
\* summary_op]), add_summary, and on a check-in sess.run([loss_op]), which
\* draws a batch of its own.
CelebaBody(e) ==
    IF ~HasNext("train", drawn.train)
    THEN Outcome("OutOfRangeError", FALSE, 0, 0, KEEP_PROB_TRAIN, 0, 0)
    ELSE IF IsCheckIn(e) /\ ~HasNext("train", drawn.train + 1)
    THEN Outcome("OutOfRangeError", FALSE, 1, 0, KEEP_PROB_TRAIN, 1, 1)
    ELSE Outcome("none", FALSE, IF IsCheckIn(e) THEN 2 ELSE 1, 0, KEEP_PROB_TRAIN, 1, 1)

\* SplitBody with both get_next ops made outside tf.cond: every step draws
\* from both iterators.
SplitBody_BothDrawn(e) ==
    IF ~HasNext("train", drawn.train) \/ ~HasNext("test", drawn.test)
    THEN Outcome("OutOfRangeError", IsTestStep(e), 0, 0,
                 IF IsTestStep(e) THEN KEEP_PROB_TEST ELSE KEEP_PROB_TRAIN, 0, 0)
    ELSE IF ~IsTestStep(e)
         THEN Outcome("none", FALSE, 1, 1, KEEP_PROB_TRAIN, 1, 1)
         ELSE Outcome("none", TRUE, 1, 1, KEEP_PROB_TEST, 0, 1)

\* The loop body of the second notebook at index e: one sess.run, with
\* train_op and train_dict when not test, without and with test_dict when
\* test; tf.cond runs the get_next of the iterator is_training chooses.
SplitBody(e) ==
    IF ~IsTestStep(e)
    THEN IF ~HasNext("train", drawn.train)
         THEN Outcome("OutOfRangeError", FALSE, 0, 0, KEEP_PROB_TRAIN, 0, 0)
         ELSE Outcome("none", FALSE, 1, 0, KEEP_PROB_TRAIN, 1, 1)
    ELSE IF ~HasNext("test", drawn.test)
         THEN Outcome("OutOfRangeError", TRUE, 0, 0, KEEP_PROB_TEST, 0, 0)
         ELSE Outcome("none", TRUE, 0, 1, KEEP_PROB_TEST, 0, 1)

\* The first sess.run of the loop when the globals name ops of two
\* executions of the graph cell: the old placeholders are not fed and the
\* old iterators not initialised; either error may come first.
StaleBody(e) ==
    {Outcome(err, notebook = 2 /\ IsTestStep(e), 0, 0,
             IF notebook = 2 /\ IsTestStep(e) THEN KEEP_PROB_TEST ELSE KEEP_PROB_TRAIN, 0, 0)
        : err \in {"InvalidArgumentError", "FailedPreconditionError"}}

LoopBody(e) ==
    IF graph = "stale" THEN StaleBody(e)
    ELSE IF notebook = 1 THEN {CelebaBody(e)} ELSE {SplitBody(e)}

\* AddSummary by a writer that starts its log over at step 0.
AddSummary_StartsOver(l, test, entry) ==
    IF test THEN [l EXCEPT !.test = IF entry.step = 0 THEN <<entry>> ELSE Append(@, entry)]
    ELSE [l EXCEPT !.train = IF entry.step = 0 THEN <<entry>> ELSE Append(@, entry)]

\* AddSummary with train_writer in both branches.
AddSummary_TrainWriter(l, test, entry) == [l EXCEPT !.train = Append(@, entry)]

\* writer.add_summary(summary, epoch) on the writer of the step's kind.
AddSummary(l, test, entry) ==
    IF test THEN [l EXCEPT !.test = Append(@, entry)]
    ELSE [l EXCEPT !.train = Append(@, entry)]

\* One iteration of for epoch in range(iterations + 1).
LoopStep ==
    /\ tpc = "loop"
    /\ epoch <= iterations
    /\ \E o \in LoopBody(epoch) :
        /\ drawn' = [train |-> drawn.train + o.train_draws,
                     test  |-> drawn.test + o.test_draws]
        /\ params' = params + o.updates
        /\ logs' = IF o.entries = 0 THEN logs
                   ELSE AddSummary(logs, o.test,
                            [run |-> runs, step |-> epoch, keep_prob |-> o.keep_prob])
        /\ step' = [index |-> epoch, test |-> o.test, train_draws |-> o.train_draws,
                    test_draws |-> o.test_draws, keep_prob |-> o.keep_prob,
                    updates |-> o.updates, entries |-> o.entries]
        /\ tRaised' = [err |-> o.err, at |-> ""]
        /\ IF o.err = "none"
           THEN epoch' = epoch + 1 /\ tpc' = "loop" /\ last' = "step"
           ELSE epoch' = epoch /\ tpc' = "idle" /\ last' = "step_raised"
    /\ UNCHANGED <<splitVars, fsVars, cellVars, iterVars, partialK, codecVars, notebook, recFiles,
                   iterations, variables, graph, runs, writers>>

\* After the loop: the close calls on the summary writers; the session ends.
FinishTraining ==
    /\ tpc = "loop"
    /\ epoch > iterations
    /\ writers' = "closed"
    /\ tpc' = "idle"
    /\ last' = "finish_training"
    /\ UNCHANGED <<splitVars, fsVars, cellVars, iterVars, partialK, codecVars, notebook, recFiles,
                   iterations, variables, graph, epoch, drawn, params, logs, runs,
                   tRaised, step>>

NextTrain ==
    \/ BuildGraph
    \/ RestartKernel
    \/ StartTraining
    \/ LoopStep
    \/ FinishTraining

SpecTrain == InitTrain /\ [][NextTrain]_vars

-----------------------------------------------------------------------------
(* The training loop.                                                      *)

\* The test steps among the steps 0..e.
TestStepsUpTo(e) == e \div TEST_EVERY + 1

\* C11: in the second notebook a step e is a test step exactly when
\* e mod 500 = 0; a test step draws one batch from the test iterator, none
\* from the train iterator, and feeds keep_prob 1.0; any other step draws
\* one batch from the train iterator, none from the test iterator, and feeds
\* keep_prob 0.5.  So after step e the test iterator has given one batch
\* per multiple of 500 up to e, and the train iterator one per other step.
C11_TestEvery500 ==
    (notebook = 2 /\ last = "step") =>
        /\ step.test <=> (step.index % TEST_EVERY = 0)
        /\ step.test =>
            (step.test_draws = 1 /\ step.train_draws = 0 /\ step.keep_prob = KEEP_PROB_TEST)
        /\ ~step.test =>
            (step.train_draws = 1 /\ step.test_draws = 0 /\ step.keep_prob = KEEP_PROB_TRAIN)
        /\ drawn.test = TestStepsUpTo(step.index)
        /\ drawn.train = (step.index + 1) - TestStepsUpTo(step.index)

\* Step 500 of the second notebook ran as the second test step, after 499
\* train steps.
C11_Witness ==
    /\ notebook = 2 /\ last = "step"
    /\ step.index = TEST_EVERY
    /\ step.test /\ step.keep_prob = KEEP_PROB_TEST
    /\ drawn.test = 2
    /\ drawn.train = TEST_EVERY - 1

\* The entries of the current run of the training cell, in both logs.
RunEntries(l) ==
    {<<"train", n>> : n \in {m \in 1..Len(l.train) : l.train[m].run = runs}} \cup
    {<<"test", n>> : n \in {m \in 1..Len(l.test) : l.test[m].run = runs}}

StepOf(l, x) == IF x[1] = "train" THEN l.train[x[2]].step ELSE l.test[x[2]].step

\* The loop stopped at an end-of-stream error.
StoppedAtEnd == last = "step_raised" /\ tRaised.err = "OutOfRangeError"

\* C12 as stated: when a get-next of the loop fails at the end of a stream,
\* the loop stops at that step, no later step has run, the log holds no
\* summary of the failing step, and the writers were not closed.
C12_NoSummaryForFailingStep ==
    StoppedAtEnd =>
        /\ tpc = "idle" /\ step.index = epoch /\ epoch <= iterations
        /\ \A x \in RunEntries(logs) : StepOf(logs, x) < epoch
        /\ writers = "open"

\* C12, amended: as stated, but the log holds the summary of the failing
\* step when, and only when, the get-next that failed is the one of the
\* first notebook's check-in (sess.run([loss_op]) at a step divisible by
\* 100), which runs after the step's add_summary.
C12_SummaryOnlyBeforeCheckIn ==
    StoppedAtEnd =>
        /\ tpc = "idle" /\ step.index = epoch /\ epoch <= iterations
        /\ \A x \in RunEntries(logs) : StepOf(logs, x) <= epoch
        /\ Cardinality({x \in RunEntries(logs) : StepOf(logs, x) = epoch}) = step.entries
        /\ step.entries = 1 <=>
                (notebook = 1 /\ epoch % CHECK_EVERY = 0 /\ step.train_draws = 1)
        /\ step.entries \in {0, 1}
        /\ writers = "open"

\* The second notebook's train iterator ended at step 1, after the test
\* step 0 had written its summary: nothing was written for step 1 and the
\* writers stayed open.
C12_Witness ==
    /\ StoppedAtEnd
    /\ notebook = 2 /\ epoch = 1
    /\ step.entries = 0
    /\ Len(logs.test) >= 1 /\ logs.test[Len(logs.test)].step = 0
    /\ writers = "open"

-----------------------------------------------------------------------------
(* The variables of the graph.                                             *)

\* C13: an execution of the graph-construction cell when the variables are
\* registered already (no kernel restart in between) ends in the unhandled
\* naming-conflict error of the first parameter request, layer1/kernel, and
\* leaves the registered variables as they were.
C13_SecondBuildRaises ==
    [][(last' \in {"build", "build_raised"} /\ graph # "none") =>
        /\ last' = "build_raised"
        /\ tRaised' = [err |-> "ValueError", at |-> "layer1/kernel"]
        /\ variables' = variables
        /\ tpc' = "idle"]_vars

\* The cell ran a second time over the ten registered variables and raised.
C13_Witness ==
    /\ last = "build_raised"
    /\ tRaised.err = "ValueError" /\ tRaised.at = "layer1/kernel"
    /\ Cardinality(variables) = Len(ModelRequests)
    /\ graph = "stale"

\* The names model declares, each under the scope of its layer.
DeclaredNames ==
    {"layer1/kernel", "layer1/bias", "layer2/kernel", "layer2/bias",
     "layer3/kernel", "layer3/bias", "layer4/kernel", "layer4/bias",
     "fully_connected/weights", "fully_connected/bias"}

\* C14 as stated: a call of model that requests parameters under names
\* declared already gets the existing parameters: it raises nothing and
\* registers nothing new.
C14_RepeatedCallReuses ==
    [][(last' \in {"build", "build_raised"} /\ graph # "none") =>
        /\ tRaised'.err = "none"
        /\ variables' = variables]_vars

\* C14, amended: each layer of model declares its weight and bias under its
\* own layer-name scope, so one call of model on an empty graph registers
\* ten parameters of ten different names and raises nothing; a call that
\* requests a name declared already neither reuses nor duplicates the
\* parameter: it raises the naming-conflict error and registers nothing.
C14_ScopedNamesNoReuse ==
    [][last' \in {"build", "build_raised"} =>
        IF graph = "none"
        THEN /\ last' = "build" /\ tRaised'.err = "none"
             /\ variables' = DeclaredNames
             /\ Cardinality(variables') = Len(ModelRequests)
        ELSE /\ tRaised'.err = "ValueError"
             /\ variables' = variables /\ variables = DeclaredNames]_vars

\* The cell built the graph once: ten variables, no error.
C14_Witness ==
    /\ last = "build"
    /\ graph = "built"
    /\ variables = DeclaredNames
    /\ tRaised = NoError

-----------------------------------------------------------------------------
(* The summary logs.                                                       *)

\* Whether a log still begins with what it held before.
Extends(new, old) == Len(new) >= Len(old) /\ SubSeq(new, 1, Len(old)) = old

\* The entries of run r in a log, in the order they were added.
EntriesOf(log, r) == SelectSeq(log, LAMBDA x : x.run = r)

\* How many entries of run r, in both logs, are tagged with step e.
TimesLogged(r, e) ==
    Cardinality({n \in 1..Len(logs.train) :
                    logs.train[n].run = r /\ logs.train[n].step = e})
    + Cardinality({n \in 1..Len(logs.test) :
                    logs.test[n].run = r /\ logs.test[n].step = e})

\* The entries of run r in both logs.
EntriesOfRun(l, r) == Len(EntriesOf(l.train, r)) + Len(EntriesOf(l.test, r))

\* C15: no step of the graph or training cell removes or changes an entry
\* of a log: each log keeps what it held and only grows at its end, so the
\* entries of an earlier run are all there beside those of a later run; a
\* run that reaches its end has added iterations + 1 entries, and no run
\* more than that.
C15_LogsOnlyGrow ==
    [][/\ Extends(logs'.train, logs.train)
       /\ Extends(logs'.test, logs.test)
       /\ \A r \in 1..(runs - 1) :
            /\ EntriesOf(logs'.train, r) = EntriesOf(logs.train, r)
            /\ EntriesOf(logs'.test, r) = EntriesOf(logs.test, r)
       /\ last' = "finish_training" =>
            /\ EntriesOfRun(logs', runs') = iterations + 1
            /\ \A r \in 1..runs' : EntriesOfRun(logs', r) <= iterations + 1]_vars

\* The training cell ran to its end twice over the same log directory:
\* every step index from 0 to iterations is there once for each run.
C15_Witness ==
    /\ last = "finish_training"
    /\ runs = 2
    /\ iterations >= TEST_EVERY
    /\ \A e \in {0, 1, TEST_EVERY, iterations} :
            TimesLogged(1, e) = 1 /\ TimesLogged(2, e) = 1
    /\ Len(logs.train) + Len(logs.test) = 2 * (iterations + 1)

\* The steps of the entries of the current run in a log, in log order.
StepsOf(log) ==
    LET mine == EntriesOf(log, runs)
    IN  [n \in 1..Len(mine) |-> mine[n].step]

Increasing(q) == \A n \in 1..(Len(q) - 1) : q[n] < q[n + 1]

Range(q) == {q[n] : n \in 1..Len(q)}

\* C16: a step e of the loop that runs to its end adds one entry, tagged e,
\* to one log: the test log in the second notebook when e mod 500 = 0, the
\* train log otherwise (always, in the first notebook), and leaves the other
\* log alone.  When the loop is over, the entries of the run are
\* iterations + 1, their indices increase within each log, no index is in
\* both logs, and the indices are 0..iterations.
C16_OneEntryPerStep ==
    [][/\ last' = "step" =>
            LET entry == [run |-> runs, step |-> epoch, keep_prob |-> step'.keep_prob]
                toTest == notebook = 2 /\ epoch % TEST_EVERY = 0
            IN  /\ epoch' = epoch + 1
                /\ logs'.test  = IF toTest THEN Append(logs.test, entry) ELSE logs.test
                /\ logs'.train = IF toTest THEN logs.train ELSE Append(logs.train, entry)
       /\ last' = "finish_training" =>
            LET tr == StepsOf(logs'.train)
                te == StepsOf(logs'.test)
            IN  /\ Len(tr) + Len(te) = iterations + 1
                /\ Increasing(tr) /\ Increasing(te)
                /\ Range(tr) \cap Range(te) = {}
                /\ Range(tr) \cup Range(te) = 0..iterations
                /\ notebook = 1 => te = <<>>
                /\ notebook = 2 => Range(te) = {e \in 0..iterations : e % TEST_EVERY = 0}]_vars

\* A run of the second notebook over 501 steps ended with two entries in
\* the test log and 499 in the train log.
C16_Witness ==
    /\ last = "finish_training"
    /\ notebook = 2 /\ runs = 1
    /\ iterations = TEST_EVERY
    /\ StepsOf(logs.test) = <<0, TEST_EVERY>>
    /\ Len(logs.train) = TEST_EVERY - 1
    /\ logs.train[1].step = 1

-----------------------------------------------------------------------------
(* The loop against the length of the streams.                             *)

\* Every record file the loop reads holds a record, and iterations >= 2.
Overshoots ==
    /\ recFiles.train >= 1
    /\ notebook = 2 => recFiles.test >= 1
    /\ iterations >= 2

\* The loop ran over a graph built once, so that it draws batches at all.
RanBuilt == graph = "built" /\ last \in {"start", "step", "step_raised", "finish_training"}

\* The batches N * iterations * iterations a stream of N records supplies.
Supplied(n) == n * iterations * iterations

\* C19 as stated: when every record file holds a record and iterations >= 2
\* the loop never stops at an error, runs its iterations + 1 steps and
\* closes its writers, and what it has drawn from an iterator is always
\* strictly less than the N * iterations * iterations batches supplied.
C19_DrawsStrictlyFewer ==
    (Overshoots /\ RanBuilt) =>
        /\ last # "step_raised"
        /\ last = "finish_training" => (epoch = iterations + 1 /\ writers = "closed")
        /\ drawn.train < Supplied(recFiles.train)
        /\ notebook = 2 => drawn.test < Supplied(recFiles.test)

\* C19, amended: as stated, but what the loop has drawn from an iterator is
\* at most what the iterator supplies, and strictly less except in the
\* first notebook with one record and iterations = 2, where the three steps
\* and the check-in of step 0 draw all four batches.
C19_DrawsNoMore ==
    (Overshoots /\ RanBuilt) =>
        /\ last # "step_raised"
        /\ last = "finish_training" => (epoch = iterations + 1 /\ writers = "closed")
        /\ drawn.train <= Supplied(recFiles.train)
        /\ drawn.train = Supplied(recFiles.train) =>
                (notebook = 1 /\ recFiles.train = 1 /\ iterations = 2
                    /\ epoch = iterations + 1)
        /\ notebook = 2 => drawn.test < Supplied(recFiles.test)

\* The second notebook's loop ran its 501 steps over files of one record
\* each and closed its writers, having drawn 499 and 2 batches.
C19_Witness ==
    /\ Overshoots /\ RanBuilt
    /\ last = "finish_training"
    /\ notebook = 2 /\ iterations = TEST_EVERY
    /\ epoch = iterations + 1 /\ writers = "closed"
    /\ drawn = [train |-> TEST_EVERY - 1, test |-> 2]

\* C20: in the second notebook a test step runs no optimizer update and
\* leaves the parameters as they were; every other step runs one; a loop
\* that ran to its end has made (iterations + 1) - (floor(iterations / 500)
\* + 1) updates.
C20_TestStepUpdatesNothing ==
    [][notebook = 2 =>
        /\ (last' = "step" /\ epoch % TEST_EVERY = 0) => params' = params
        /\ (last' = "step" /\ epoch % TEST_EVERY # 0) => params' = params + 1
        /\ last' = "step_raised" => params' = params
        /\ last' = "finish_training" =>
                params' = (iterations + 1) - (iterations \div TEST_EVERY + 1)]_vars

\* The test step 500 ran after 499 updates and made none.
C20_Witness ==
    /\ notebook = 2
    /\ last = "step" /\ step.index = TEST_EVERY /\ step.test
    /\ step.updates = 0
    /\ params = TEST_EVERY - 1

-----------------------------------------------------------------------------
(* The check-in of the first notebook.                                     *)

\* C21: in the first notebook a step whose index is divisible by 100 draws
\* two batches, the one after the other in the stream: the first for the
\* run of train_op, the second for the run of loss_op whose value is
\* printed; the step makes one optimizer update, the one of train_op, and
\* none for the second batch; every other step draws one batch and makes one
\* update; a loop that ran to its end has drawn (iterations + 1) +
\* (floor(iterations / 100) + 1) batches.
C21_CheckInDrawsTwo ==
    [][notebook = 1 =>
        /\ (last' = "step" /\ epoch % CHECK_EVERY = 0) =>
                /\ step'.train_draws = 2
                /\ drawn'.train = drawn.train + 2
                /\ step'.updates = 1
                /\ params' = params + 1
        /\ (last' = "step" /\ epoch % CHECK_EVERY # 0) =>
                /\ step'.train_draws = 1
                /\ drawn'.train = drawn.train + 1
                /\ params' = params + 1
        /\ last' = "finish_training" =>
                /\ drawn'.train = (iterations + 1) + (iterations \div CHECK_EVERY + 1)
                /\ params' = iterations + 1]_vars

\* The check-in of step 100 drew the batches 102 and 103 of the stream and
\* made the update 101.
C21_Witness ==
    /\ notebook = 1
    /\ last = "step" /\ step.index = CHECK_EVERY
    /\ step.train_draws = 2 /\ step.updates = 1
    /\ drawn.train = (CHECK_EVERY + 1) + 2
    /\ params = CHECK_EVERY + 1

-----------------------------------------------------------------------------
(* The second notebook: the overwrite-protection cell with the train/test  *)
(* split and the two record files.                                         *)

\* test_size=0.2, in tenths
TEST_SIZE == 2

\* The items of a list at the positions f[lo], ..., f[hi].
TakeAt(q, f, lo, hi) == [i \in 1..(hi - lo + 1) |-> q[f[lo + i - 1]]]

\* sk.train_test_split(all_image_paths, all_labels, test_size=0.2): lists of
\* unequal length are refused; otherwise the positions are shuffled, the
\* first ceil(0.2 * n) go to the test part and the others to the train part,
\* each path staying with its label.  When the train part would be empty
\* the call raises or returns the empty part, by the library's version.
train_test_split(paths, labels) ==
    IF Len(paths) # Len(labels)
    THEN {[err |-> "ValueError", tr_paths |-> <<>>, te_paths |-> <<>>,
           tr_lbls |-> <<>>, te_lbls |-> <<>>]}
    ELSE LET n       == Len(paths)
             n_test  == (TEST_SIZE * n + 9) \div 10
             n_train == n - n_test
         IN  (IF n_train = 0
              THEN {[err |-> "ValueError", tr_paths |-> <<>>, te_paths |-> <<>>,
                     tr_lbls |-> <<>>, te_lbls |-> <<>>]}
              ELSE {})
             \cup
             {[err |-> "none",
               tr_paths |-> TakeAt(paths, f, n_test + 1, n),
               te_paths |-> TakeAt(paths, f, 1, n_test),
               tr_lbls  |-> TakeAt(labels, f, n_test + 1, n),
               te_lbls  |-> TakeAt(labels, f, 1, n_test)]
                : f \in Perms(n)}

\* The records make_tfr writes for the given paths and labels.
make_tfr(paths, labels) ==
    LET pl == zip(paths, labels)
    IN  [n \in 1..Len(pl) |-> RecordOf(ResizedImage(pl[n][1]), pl[n][2])]

\* make_tfr(tr_paths, tr_lbls, tfr_file=TFR_TRAIN) and make_tfr(te_paths,
\* te_lbls, tfr_file=TFR_TEST): each opens its file empty and writes its
\* records; the kernel may be interrupted after any record of either call.
WriteBoth(s, test) ==
    LET tr == make_tfr(s.tr_paths, s.tr_lbls)
        te == make_tfr(s.te_paths, s.te_lbls)
    IN  {[err |-> "none", train |-> [exists |-> TRUE, recs |-> tr],
          test |-> [exists |-> TRUE, recs |-> te], wrote_test |-> TRUE]}
        \cup
        {[err |-> "KeyboardInterrupt", train |-> [exists |-> TRUE, recs |-> SubSeq(tr, 1, k)],
          test |-> test, wrote_test |-> FALSE]
            : k \in 0..Len(tr)}
        \cup
        {[err |-> "KeyboardInterrupt", train |-> [exists |-> TRUE, recs |-> tr],
          test |-> [exists |-> TRUE, recs |-> SubSeq(te, 1, k)], wrote_test |-> TRUE]
            : k \in 0..Len(te)}

\* The test that looks at the train file only.
SplitGuardTaken_TrainOnly(flag, train, test) == flag \/ ~train.exists

\* if write_tfr or not os.path.isfile(TFR_TRAIN) or not os.path.isfile(TFR_TEST):
SplitGuardTaken(flag, train, test) == flag \/ ~train.exists \/ ~test.exists

\* What a run of the cell did, given the files it found.
RunOf(branch, wrote_train, wrote_test) ==
    [branch |-> branch, train_existed |-> tfrTrain.exists, test_existed |-> tfrTest.exists,
     wrote_train |-> wrote_train, wrote_test |-> wrote_test]

\* The image directory with p images, listed by name, or missing; the
\* split shuffles the listing whatever its order.
ListedDirs ==
    {[exists |-> FALSE, names |-> <<>>]} \cup
    {[exists |-> TRUE, names |-> [i \in 1..p |-> ImageName(i)]] : p \in 0..MaxImages}

InitSplit ==
    /\ imgDir \in ListedDirs
    /\ attrTxt \in CelebaFiles
    /\ tfr = NoTfr
    /\ CellIdle /\ IterIdle /\ CodecIdle /\ SplitIdle
    /\ last = "init" /\ partialK = 0 - 1
    /\ notebook = 2 /\ recFiles = [train |-> 0, test |-> 0] /\ iterations = 0
    /\ variables = {} /\ graph = "none"
    /\ tpc = "idle" /\ epoch = 0 /\ drawn = [train |-> 0, test |-> 0] /\ params = 0
    /\ logs = [train |-> <<>>, test |-> <<>>] /\ runs = 0 /\ writers = "none"
    /\ tRaised = NoError /\ step = NoStep

\* The overwrite-protection cell of the second notebook, run with the flag
\* set to flag: the test, read_labeled_image_list, train_test_split and the
\* two calls of make_tfr, up to the first call that raises.
RunSplitGuard(flag) ==
    /\ write_tfr' = flag
    /\ IF SplitGuardTaken(flag, tfrTrain, tfrTest)
       THEN LET r == ReadLists(imgDir, attrTxt)
            IN  IF r.err # "none"
                THEN /\ raised' = r.err
                     /\ last' = "split_read_raised"
                     /\ cellRun' = RunOf(TRUE, FALSE, FALSE)
                     /\ UNCHANGED <<all_image_paths, all_labels, split, tfrTrain, tfrTest>>
                ELSE /\ all_image_paths' = r.paths
                     /\ all_labels' = r.labels
                     /\ \E s \in train_test_split(r.paths, r.labels) :
                         IF s.err # "none"
                         THEN /\ raised' = s.err
                              /\ last' = "split_raised"
                              /\ cellRun' = RunOf(TRUE, FALSE, FALSE)
                              /\ UNCHANGED <<split, tfrTrain, tfrTest>>
                         ELSE /\ split' = [tr_paths |-> s.tr_paths, te_paths |-> s.te_paths,
                                           tr_lbls |-> s.tr_lbls, te_lbls |-> s.te_lbls]
                              /\ \E w \in WriteBoth(s, tfrTest) :
                                  /\ tfrTrain' = w.train
                                  /\ tfrTest' = w.test
                                  /\ raised' = w.err
                                  /\ last' = IF w.err = "none" THEN "split_write"
                                             ELSE "split_interrupt"
                                  /\ cellRun' = RunOf(TRUE, TRUE, w.wrote_test)
       ELSE /\ raised' = "none"
            /\ last' = "split_skip"
            /\ cellRun' = RunOf(FALSE, FALSE, FALSE)
            /\ UNCHANGED <<all_image_paths, all_labels, split, tfrTrain, tfrTest>>
    /\ UNCHANGED <<trainVars, fsVars, pc, wN, partialK, iterVars, codecVars>>

\* The user deletes the train record file between two cell runs.
DeleteTrainFile ==
    /\ tfrTrain.exists
    /\ tfrTrain' = NoTfr
    /\ last' = "delete_train"
    /\ UNCHANGED <<trainVars, fsVars, cellVars, partialK, iterVars, codecVars,
                   tfrTest, split, cellRun>>

\* The user deletes the test record file between two cell runs.
DeleteTestFile ==
    /\ tfrTest.exists
    /\ tfrTest' = NoTfr
    /\ last' = "delete_test"
    /\ UNCHANGED <<trainVars, fsVars, cellVars, partialK, iterVars, codecVars,
                   tfrTrain, split, cellRun>>

NextSplit ==
    \/ \E flag \in BOOLEAN : RunSplitGuard(flag)
    \/ DeleteTrainFile
    \/ DeleteTestFile

SpecSplit == InitSplit /\ [][NextSplit]_vars

\* The kinds of step that are a run of the second notebook's guard cell.
SplitGuardKinds ==
    {"split_skip", "split_read_raised", "split_raised", "split_write", "split_interrupt"}

\* The items of a list, each as often as it is in the list.
ItemBag(q) == [x \in {q[i] : i \in 1..Len(q)} |-> Cardinality({i \in 1..Len(q) : q[i] = x})]

\* The path and label pairs of two lists.
Pairs(paths, labels) == [i \in 1..Len(paths) |-> <<paths[i], labels[i]>>]

\* The globals tr_paths, te_paths, tr_lbls, te_lbls hold a split of the
\* lists just read: every path with its label, in one of the two parts.
IsSplitOfLists(sp, paths, labels) ==
    /\ Len(sp.tr_paths) = Len(sp.tr_lbls)
    /\ Len(sp.te_paths) = Len(sp.te_lbls)
    /\ ItemBag(Pairs(sp.tr_paths, sp.tr_lbls) \o Pairs(sp.te_paths, sp.te_lbls))
            = ItemBag(Pairs(paths, labels))

\* C22 as stated: the cell takes the writer branch exactly when write_tfr
\* is true or one of the two record files is missing; whenever it takes the
\* branch it rewrites both files from a split it computes, and it leaves
\* both files as they were only when both exist and write_tfr is false.
C22_BranchRewritesBoth ==
    [][last' \in SplitGuardKinds =>
        /\ cellRun'.branch <=> (write_tfr' \/ ~tfrTrain.exists \/ ~tfrTest.exists)
        /\ cellRun'.branch => (cellRun'.wrote_train /\ cellRun'.wrote_test)
        /\ (~cellRun'.wrote_train /\ ~cellRun'.wrote_test) =>
                (tfrTrain.exists /\ tfrTest.exists /\ ~write_tfr')]_vars

\* C22, amended: the cell takes the writer branch exactly when write_tfr is
\* true or one of the two record files is missing; whenever it takes the
\* branch and runs to its end without an error it has computed a split of
\* the lists it read and rewritten both files from it, the file that
\* existed too; when a call before make_tfr raises, and when both files
\* exist and write_tfr is false, no file is written.
C22_BranchRewritesBothUnlessRaised ==
    [][last' \in SplitGuardKinds =>
        /\ cellRun'.branch <=> (write_tfr' \/ ~tfrTrain.exists \/ ~tfrTest.exists)
        /\ (cellRun'.branch /\ raised' = "none") =>
                /\ cellRun'.wrote_train /\ cellRun'.wrote_test
                /\ IsSplitOfLists(split', all_image_paths', all_labels')
                /\ tfrTrain' = [exists |-> TRUE,
                                recs |-> make_tfr(split'.tr_paths, split'.tr_lbls)]
                /\ tfrTest' = [exists |-> TRUE,
                               recs |-> make_tfr(split'.te_paths, split'.te_lbls)]
        /\ raised' \in {"FileNotFoundError", "ValueError"} =>
                /\ cellRun'.branch
                /\ ~cellRun'.wrote_train /\ ~cellRun'.wrote_test
                /\ tfrTrain' = tfrTrain /\ tfrTest' = tfrTest
        /\ ~cellRun'.branch =>
                /\ tfrTrain.exists /\ tfrTest.exists /\ ~write_tfr'
                /\ ~cellRun'.wrote_train /\ ~cellRun'.wrote_test
                /\ tfrTrain' = tfrTrain /\ tfrTest' = tfrTest /\ split' = split]_vars

\* The cell, run with the flag off when only the test file was missing,
\* rewrote the train file too; each file holds one record of the new split.
C22_Witness ==
    /\ last = "split_write" /\ raised = "none" /\ ~write_tfr
    /\ cellRun.branch /\ cellRun.train_existed /\ ~cellRun.test_existed
    /\ cellRun.wrote_train /\ cellRun.wrote_test
    /\ tfrTrain.exists /\ tfrTest.exists
    /\ Len(tfrTrain.recs) = 1 /\ Len(tfrTest.recs) = 1

=============================================================================
